---- MODULE Spec2Model ----
(***************************************************************************)
(* Model of crontab/crontabs.py: the discovery strategies UserSpool,       *)
(* SystemTab and AnaCronTab, the KNOWN_LOCATIONS registry and the CronTabs *)
(* singleton with its merged view `all`.                                   *)
(*                                                                         *)
(* Python strings are sequences of one-character strings, so that          *)
(* os.path.join, item[0] == '.', loc.split('.')[-1] and the substring test *)
(* of find_command are computed as the code computes them.  None, True and *)
(* False are one-element sequences whose element is not a character, so    *)
(* they differ from every Python string.                                   *)
(***************************************************************************)
EXTENDS Naturals, Sequences, FiniteSets, TLC

None == <<"None">>
True == <<"True">>
False == <<"False">>

(* ---------------- bounds ---------------- *)
MaxAdds == 1
MaxConstructs == 2

(* ---------------- string constants of the source ---------------- *)
SPOOL == <<"/","v","a","r","/","s","p","o","o","l","/","c","r","o","n","/","c","r","o","n","t","a","b","s","/">>
ETC_CRONTAB == <<"/","e","t","c","/","c","r","o","n","t","a","b">>
CRON_D == <<"/","e","t","c","/","c","r","o","n",".","d","/">>
HOURLY == <<"/","e","t","c","/","c","r","o","n",".","h","o","u","r","l","y">>
DAILY == <<"/","e","t","c","/","c","r","o","n",".","d","a","i","l","y">>
WEEKLY == <<"/","e","t","c","/","c","r","o","n",".","w","e","e","k","l","y">>
MONTHLY == <<"/","e","t","c","/","c","r","o","n",".","m","o","n","t","h","l","y">>
unknown == <<"u","n","k","n","o","w","n">>
Anacron_ == <<"A","n","a","c","r","o","n"," ">>
s0anacron == <<"0","a","n","a","c","r","o","n">>

KNOWN_LOCATIONS ==
  << [cls |-> "UserSpool", loc |-> SPOOL],
     [cls |-> "SystemTab", loc |-> ETC_CRONTAB],
     [cls |-> "SystemTab", loc |-> CRON_D],
     [cls |-> "AnaCronTab", loc |-> HOURLY],
     [cls |-> "AnaCronTab", loc |-> DAILY],
     [cls |-> "AnaCronTab", loc |-> WEEKLY],
     [cls |-> "AnaCronTab", loc |-> MONTHLY] >>

(* ---------------- names used by the modelled file systems ---------------- *)
run_parts == <<"r","u","n","-","p","a","r","t","s"," ">>
test_d == <<"t","e","s","t"," ","-","d"," ">>
dot_bak == <<".","b","a","k">>
run_sh == <<"r","u","n",".","s","h">>
README == <<"R","E","A","D","M","E">>
dot_hidden == <<".","h","i","d","d","e","n">>
job1 == <<"j","o","b","1">>
wk == <<"w","k">>
al == <<"a","l">>
pi == <<"p","i">>
root == <<"r","o","o","t">>
CurrentUser == pi

(* ---------------- string functions ---------------- *)
(* os.path.join(loc, name) for a relative name *)
join(loc, name) ==
  IF Len(loc) > 0 /\ loc[Len(loc)] = "/" THEN loc \o name ELSE loc \o <<"/">> \o name

(* Python `sub in s` on strings *)
Contains(s, sub) ==
  \E i \in 1..(Len(s) + 1) :
     /\ i + Len(sub) - 1 <= Len(s)
     /\ SubSeq(s, i, i + Len(sub) - 1) = sub

(* Python s.split('.')[-1] *)
LastSegment(s) ==
  LET dots == {i \in 1..Len(s) : s[i] = "."}
  IN  IF dots = {} THEN s
      ELSE LET m == CHOOSE i \in dots : \A j \in dots : j <= i
           IN  SubSeq(s, m + 1, Len(s))

(* ---------------- the file systems discovery runs against ---------------- *)
UserLine(cmd) == [slices |-> "30 6 * * *", user |-> None, command |-> cmd]
SysLine(sl, cmd) == [slices |-> sl, user |-> root, command |-> cmd]

(* spoolOk: the spool directory can be listed; names: its entries;        *)
(* ownerAl: account owning al's file (None: the uid has no account);      *)
(* nAl, nPi: jobs in al's and pi's crontab; crontab: /etc/crontab exists;  *)
(* crond: "absent", "ok", "unreadable", "corrupt"; daily: "absent", "ok",  *)
(* "unreadable"; weekly: the directory /etc/cron.weekly exists.            *)
FileSystem(spoolOk, names, ownerAl, nAl, nPi, crontab, crond, daily, weekly) ==
  LET alF == join(SPOOL, al)
      piF == join(SPOOL, pi)
      c1F == join(CRON_D, job1)
      chF == join(CRON_D, dot_hidden)
      spoolFiles == (IF spoolOk /\ \E i \in DOMAIN names : names[i] = al THEN {alF} ELSE {})
                    \cup (IF ~spoolOk \/ \E i \in DOMAIN names : names[i] = pi THEN {piF} ELSE {})
      cronFiles == (IF crontab THEN {ETC_CRONTAB} ELSE {})
                   \cup (IF crond \in {"ok", "unreadable"} THEN {c1F, chF} ELSE {})
                   \cup (IF crond = "corrupt" THEN {c1F} ELSE {})
      files == spoolFiles \cup cronFiles
      content(f) ==
        IF f = alF THEN (IF nAl = 0 THEN <<>> ELSE <<UserLine(<<"x">>)>>)
        ELSE IF f = piF THEN (IF nPi = 0 THEN <<>> ELSE <<UserLine(run_parts \o WEEKLY)>>)
        ELSE IF f = ETC_CRONTAB THEN << SysLine("17 * * * *", <<"y">>),
                                        SysLine("25 6 * * *", run_parts \o DAILY) >>
        ELSE IF f = c1F THEN << SysLine("@daily", test_d \o DAILY) >>
        ELSE << SysLine("@hourly", <<"z">>) >>
  IN  [ isdir   |-> (IF crond # "absent" THEN {CRON_D} ELSE {})
                    \cup (IF daily # "absent" THEN {DAILY} ELSE {})
                    \cup (IF weekly THEN {WEEKLY} ELSE {}),
        isfile  |-> files,
        listdir |-> [d \in {SPOOL, CRON_D, HOURLY, DAILY, WEEKLY, MONTHLY} |->
                       IF d = SPOOL THEN [err |-> ~spoolOk, names |-> IF spoolOk THEN names ELSE <<>>]
                       ELSE IF d = CRON_D
                         THEN [err |-> crond \in {"absent", "unreadable"},
                               names |-> IF crond = "ok" THEN <<dot_hidden, job1>>
                                         ELSE IF crond = "corrupt" THEN <<job1>> ELSE <<>>]
                       ELSE IF d = DAILY
                         THEN [err |-> daily # "ok",
                               names |-> IF daily = "ok"
                                         THEN <<s0anacron, dot_bak, run_sh, README>> ELSE <<>>]
                       ELSE IF d = WEEKLY
                         THEN [err |-> ~weekly, names |-> IF weekly THEN <<wk>> ELSE <<>>]
                       ELSE [err |-> TRUE, names |-> <<>>]],
        xok     |-> {join(DAILY, s0anacron), join(DAILY, dot_bak), join(DAILY, run_sh),
                     join(WEEKLY, wk)},
        owner   |-> [f \in spoolFiles |-> IF f = alF THEN ownerAl ELSE pi],
        corrupt |-> IF crond = "corrupt" THEN {c1F} ELSE {},
        lines   |-> [f \in files |-> content(f)] ]

FileSystems ==
  { FileSystem(ok, ns, oa, na, np, ct, cd, dy, wy) :
      ok \in BOOLEAN, ns \in {<<>>, <<al>>, <<al, pi>>}, oa \in {al, pi, None},
      na \in 0..1, np \in 0..1, ct \in BOOLEAN,
      cd \in {"absent", "ok", "unreadable", "corrupt"},
      dy \in {"absent", "ok", "unreadable"}, wy \in BOOLEAN }

(* ---------------- state ---------------- *)
VARIABLES
  fs,        \* the file system and account database the os / pwd calls answer from
  items,     \* the CronItem objects created so far; a job is named by its index
  tabs,      \* the CronTabs list itself: the owned CronTab handles, in order
  _all,      \* CronTabs._all: [cached |-> FALSE] is None, else the merged CronTab's jobs
  _self,     \* CronTabs._self is set
  pc,        \* 0: no constructor running; k: __init__ is about to add KNOWN_LOCATIONS[k]
  call,      \* the operation that ran last and its arguments
  exc,       \* the operation that ran last raised
  ret,       \* jobs of the CronTab the last read of `all` returned
  passes,    \* discovery passes __init__ has started
  visited,   \* registry indexes __init__ has called add on, during the last pass
  appended,  \* handles the last call of add appended to the list
  nadds,     \* calls of add made by the caller
  nconstructs, \* constructor calls
  system_cron, \* updateAzaanTimers.py: the installed crontab of user pi, a list of jobs
  times,     \* updateAzaanTimers.py: the prayer times the last run computed
  nruns      \* updateAzaanTimers.py: runs of the script so far

(* updateAzaanTimers.py: the keys of the times the script uses *)
PrayerNames == {"fajr", "dhuhr", "asr", "maghrib", "isha"}

(* a time of day as PT.getTimes formats it, "HH:MM", one character per element *)
HHMM(h1, h2, m1, m2) == <<h1, h2, ":", m1, m2>>

azvars == <<system_cron, times, nruns>>

vars == <<fs, items, tabs, _all, _self, pc, call, exc, ret, passes, visited, appended,
          nadds, nconstructs, system_cron, times, nruns>>

(* ---------------- the CronTab collaborator ---------------- *)
(* len(tab): CronTab.__len__ is the number of jobs, so an empty tab is falsy *)
CronTab_len(tab) == Len(tab.crons)
Truthy(tab) == CronTab_len(tab) > 0

(* CronTab.user: True resolves to the invoking user's name *)
CronTab_user(tab) == IF tab.user = True THEN CurrentUser ELSE tab.user

(* `crontab -l -u name`: the user's spool file, nothing when there is none *)
crontab_l(name) ==
  IF join(SPOOL, name) \in fs.isfile THEN fs.lines[join(SPOOL, name)] ELSE <<>>

(* the lines a CronTab(user, tabfile) reads *)
CronTab_lines(user, tabfile) ==
  IF tabfile # None THEN (IF tabfile \in fs.isfile THEN fs.lines[tabfile] ELSE <<>>)
  ELSE IF user = True THEN crontab_l(CurrentUser)
  ELSE IF user = False \/ user = None THEN <<>>
  ELSE crontab_l(user)

(* opening the tab raises: the file is missing or cannot be parsed *)
CronTab_raises(user, tabfile) ==
  tabfile # None /\ (tabfile \notin fs.isfile \/ tabfile \in fs.corrupt)

(* the CronItem objects parsed from the lines ls of a tab of `user`; only a *)
(* system tab (user is False) has a user column                            *)
CronTab_parse(ls, user, cron) ==
  [k \in 1..Len(ls) |->
     [command |-> ls[k].command,
      user    |-> IF user = False THEN ls[k].user ELSE None,
      comment |-> <<>>,
      slices  |-> ls[k].slices,
      cron    |-> cron]]

(* the tab holding the objects `new`, created while `its` are the existing ones *)
CronTab_new(its, user, tabfile, new) ==
  [items |-> its \o new,
   tab   |-> [user |-> user, tabfile |-> tabfile,
              crons |-> [k \in 1..Len(new) |-> Len(its) + k]]]

(* CronTab(user=..., tabfile=...) built while `its` are the existing objects; *)
(* cron is the place the handle takes in the CronTabs list if it is kept      *)
CronTab(its, user, tabfile, cron) ==
  CronTab_new(its, user, tabfile, CronTab_parse(CronTab_lines(user, tabfile), user, cron))

(* CronTab.find_command(loc) over a job sequence: jobs whose command contains loc *)
find_command(its, crons, loc) ==
  SelectSeq(crons, LAMBDA j : Contains(its[j].command, loc))

(* list.remove of one job *)
Remove(crons, j) == SelectSeq(crons, LAMBDA x : x # j)

(* ---------------- UserSpool ---------------- *)
listdir(loc) == IF fs.listdir[loc].err THEN <<>> ELSE fs.listdir[loc].names

get_owner(path) == fs.owner[path]

(* variant: ownership is not looked at, every entry is bound to its name *)
generate_user(its, loc, username, cron) == CronTab(its, username, None, cron)

generate(its, loc, username, cron) ==
  LET path == join(loc, username)
  IN  IF username # get_owner(path)
      THEN CronTab(its, None, path, cron)
      ELSE CronTab(its, username, None, cron)

(* a source returns [items, out, exc]: the objects after it ran, the handles *)
(* it holds, and whether it raised                                          *)
(* `if tab := ...: self.append(tab)`: the tab t.tab is kept when it is truthy *)
UserSpool_append(acc, t) ==
  IF Truthy(t.tab) THEN [acc EXCEPT !.items = t.items, !.out = Append(@, t.tab)]
  ELSE acc

RECURSIVE UserSpoolLoop(_, _, _, _, _)
UserSpoolLoop(names, k, loc, base, acc) ==
  IF k > Len(names) THEN acc
  ELSE UserSpoolLoop(names, k + 1, loc, base,
         UserSpool_append(acc, generate(acc.items, loc, names[k], base + Len(acc.out) + 1)))

(* `if not self`: the invoking user's own tab *)
UserSpool_fallback(r, base) ==
  IF r.out = <<>> THEN UserSpool_append(r, CronTab(r.items, True, None, base + 1)) ELSE r

UserSpool(its, loc, base) ==
  UserSpool_fallback(UserSpoolLoop(listdir(loc), 1, loc, base,
                                   [items |-> its, out |-> <<>>, exc |-> FALSE]),
                     base)

(* ---------------- SystemTab ---------------- *)
(* self.append(CronTab(user=False, tabfile=path)); opening the tab may raise *)
SystemTab_open(acc, t) == [acc EXCEPT !.items = t.items, !.out = Append(@, t.tab)]

(* variant: user=False is forgotten, the tab is not ownerless *)
SystemTab_append_owned(acc, path, base) ==
  IF CronTab_raises(False, path) THEN [acc EXCEPT !.exc = TRUE]
  ELSE SystemTab_open(acc, CronTab(acc.items, None, path, base + Len(acc.out) + 1))

SystemTab_append(acc, path, base) ==
  IF CronTab_raises(False, path) THEN [acc EXCEPT !.exc = TRUE]
  ELSE SystemTab_open(acc, CronTab(acc.items, False, path, base + Len(acc.out) + 1))

RECURSIVE SystemTabLoop(_, _, _, _, _)
SystemTabLoop(names, k, loc, base, acc) ==
  IF k > Len(names) \/ acc.exc THEN acc
  ELSE IF names[k][1] = "." THEN SystemTabLoop(names, k + 1, loc, base, acc)
  ELSE SystemTabLoop(names, k + 1, loc, base,
                      SystemTab_append(acc, join(loc, names[k]), base))

SystemTab(its, loc, base) ==
  IF loc \in fs.isdir
  THEN IF fs.listdir[loc].err THEN [items |-> its, out |-> <<>>, exc |-> TRUE]
       ELSE SystemTabLoop(fs.listdir[loc].names, 1, loc, base,
                          [items |-> its, out |-> <<>>, exc |-> FALSE])
  ELSE IF loc \in fs.isfile
  THEN SystemTab_append([items |-> its, out |-> <<>>, exc |-> FALSE], loc, base)
  ELSE [items |-> its, out |-> <<>>, exc |-> FALSE]

(* ---------------- CronTabs.all ---------------- *)
(* variant: the handles are merged last first *)
RECURSIVE Merged_rev(_, _)
Merged_rev(tbs, k) ==
  IF k > Len(tbs) THEN <<>> ELSE Merged_rev(tbs, k + 1) \o tbs[k].crons

RECURSIVE Merged(_, _)
Merged(tbs, k) == IF k > Len(tbs) THEN <<>> ELSE tbs[k].crons \o Merged(tbs, k + 1)

InSeq(x, sq) == \E i \in DOMAIN sq : sq[i] = x

(* variant: no fallback *)
Or_first(a, b) == a

(* Python `a or b` on a user value *)
Or(a, b) == IF a = None \/ a = False \/ a = <<>> THEN b ELSE a

(* the property `all`: returns [items, _all]; the merged CronTab is _all.crons *)
all(its, tbs, cache) ==
  IF cache.cached THEN [items |-> its, _all |-> cache]
  ELSE [items |-> [j \in DOMAIN its |->
                     IF its[j].user = None /\ \E k \in DOMAIN tbs : InSeq(j, tbs[k].crons)
                     THEN LET k == CHOOSE k \in DOMAIN tbs : InSeq(j, tbs[k].crons)
                          IN  [its[j] EXCEPT !.user = Or(CronTab_user(tbs[k]), unknown)]
                     ELSE its[j]],
        _all  |-> [cached |-> TRUE, crons |-> Merged(tbs, 1)]]

(* ---------------- AnaCronTab ---------------- *)
(* variant: the executable bit is not tested *)
AnaCronTab_add_noexec(acc, loc, item, anajob, cron) ==
  LET path == join(loc, item)
  IN  IF item = s0anacron \/ item[1] = "." THEN acc
      ELSE LET job == [command |-> path,
                       user    |-> acc.items[anajob].user,
                       comment |-> Anacron_ \o LastSegment(loc),
                       slices  |-> acc.items[anajob].slices,
                       cron    |-> cron]
           IN  [items |-> Append(acc.items, job),
                crons |-> Append(acc.crons, Len(acc.items) + 1)]

(* AnaCronTab.add: acc is [items, crons], crons the jobs of the seeded handle self[0] *)
AnaCronTab_add(acc, loc, item, anajob, cron) ==
  LET path == join(loc, item)
  IN  IF item = s0anacron \/ item[1] = "." \/ path \notin fs.xok THEN acc
      ELSE LET job == [command |-> path,
                       user    |-> acc.items[anajob].user,
                       comment |-> Anacron_ \o LastSegment(loc),
                       slices  |-> acc.items[anajob].slices,
                       cron    |-> cron]
           IN  [items |-> Append(acc.items, job),
                crons |-> Append(acc.crons, Len(acc.items) + 1)]

RECURSIVE AnaCronTabLoop(_, _, _, _, _, _)
AnaCronTabLoop(names, k, loc, anajob, cron, acc) ==
  IF k > Len(names) THEN acc
  ELSE AnaCronTabLoop(names, k + 1, loc, anajob, cron,
                      AnaCronTab_add(acc, loc, names[k], anajob, cron))

(* CronItem.delete: remove the job from the tab it belongs to *)
delete(tbs, its, j) ==
  [tbs EXCEPT ![its[j].cron].crons = Remove(@, j)]

(* variant: jobs[0].delete() is missing *)
AnaCronTab_nodelete(its, tbs, cache, loc) ==
  LET same == [items |-> its, tabs |-> tbs, _all |-> cache, out |-> <<>>, exc |-> FALSE]
  IN  IF Len(tbs) > 0 /\ loc \in fs.isdir
      THEN LET a == all(its, tbs, cache)
               jobs == find_command(a.items, a._all.crons, loc)
               read == [same EXCEPT !.items = a.items, !._all = a._all]
               seeded == [user |-> False, tabfile |-> None, crons |-> <<>>]
           IN  IF jobs # <<>>
               THEN IF fs.listdir[loc].err THEN [read EXCEPT !.exc = TRUE]
                    ELSE LET r == AnaCronTabLoop(fs.listdir[loc].names, 1, loc, jobs[1],
                                                 Len(tbs) + 1,
                                                 [items |-> a.items, crons |-> <<>>])
                         IN  [read EXCEPT !.items = r.items,
                                          !.out = <<[seeded EXCEPT !.crons = r.crons]>>]
               ELSE [read EXCEPT !.out = <<seeded>>]
      ELSE same

(* variant: `tabs` is not tested, only the directory *)
AnaCronTab_notabs(its, tbs, cache, loc) ==
  LET same == [items |-> its, tabs |-> tbs, _all |-> cache, out |-> <<>>, exc |-> FALSE]
  IN  IF loc \in fs.isdir
      THEN LET a == all(its, tbs, cache)
               jobs == find_command(a.items, a._all.crons, loc)
               read == [same EXCEPT !.items = a.items, !._all = a._all]
               seeded == [user |-> False, tabfile |-> None, crons |-> <<>>]
           IN  IF jobs # <<>>
               THEN IF fs.listdir[loc].err THEN [read EXCEPT !.exc = TRUE]
                    ELSE LET r == AnaCronTabLoop(fs.listdir[loc].names, 1, loc, jobs[1],
                                                 Len(tbs) + 1,
                                                 [items |-> a.items, crons |-> <<>>])
                         IN  [read EXCEPT !.items = r.items,
                                          !.tabs = delete(tbs, r.items, jobs[1]),
                                          !.out = <<[seeded EXCEPT !.crons = r.crons]>>]
               ELSE [read EXCEPT !.out = <<seeded>>]
      ELSE same

(* variant: the seeded handle is kept only when a template job was found *)
AnaCronTab_noseed(its, tbs, cache, loc) ==
  LET same == [items |-> its, tabs |-> tbs, _all |-> cache, out |-> <<>>, exc |-> FALSE]
  IN  IF Len(tbs) > 0 /\ loc \in fs.isdir
      THEN LET a == all(its, tbs, cache)
               jobs == find_command(a.items, a._all.crons, loc)
               read == [same EXCEPT !.items = a.items, !._all = a._all]
               seeded == [user |-> False, tabfile |-> None, crons |-> <<>>]
           IN  IF jobs # <<>>
               THEN IF fs.listdir[loc].err THEN [read EXCEPT !.exc = TRUE]
                    ELSE LET r == AnaCronTabLoop(fs.listdir[loc].names, 1, loc, jobs[1],
                                                 Len(tbs) + 1,
                                                 [items |-> a.items, crons |-> <<>>])
                         IN  [read EXCEPT !.items = r.items,
                                          !.tabs = delete(tbs, r.items, jobs[1]),
                                          !.out = <<[seeded EXCEPT !.crons = r.crons]>>]
               ELSE read
      ELSE same

(* returns [items, tabs, _all, out, exc] *)
AnaCronTab(its, tbs, cache, loc) ==
  LET same == [items |-> its, tabs |-> tbs, _all |-> cache, out |-> <<>>, exc |-> FALSE]
  IN  IF Len(tbs) > 0 /\ loc \in fs.isdir
      THEN LET a == all(its, tbs, cache)
               jobs == find_command(a.items, a._all.crons, loc)
               read == [same EXCEPT !.items = a.items, !._all = a._all]
               seeded == [user |-> False, tabfile |-> None, crons |-> <<>>]
           IN  IF jobs # <<>>
               THEN IF fs.listdir[loc].err THEN [read EXCEPT !.exc = TRUE]
                    ELSE LET r == AnaCronTabLoop(fs.listdir[loc].names, 1, loc, jobs[1],
                                                 Len(tbs) + 1,
                                                 [items |-> a.items, crons |-> <<>>])
                         IN  [read EXCEPT !.items = r.items,
                                          !.tabs = delete(tbs, r.items, jobs[1]),
                                          !.out = <<[seeded EXCEPT !.crons = r.crons]>>]
               ELSE [read EXCEPT !.out = <<seeded>>]
      ELSE same

(* ---------------- CronTabs ---------------- *)
(* the call cls(loc, tabs=self) made by add *)
Source(cls, loc, its, tbs, cache) ==
  IF cls = "AnaCronTab" THEN AnaCronTab(its, tbs, cache, loc)
  ELSE LET r == IF cls = "UserSpool" THEN UserSpool(its, loc, Len(tbs))
                ELSE SystemTab(its, loc, Len(tbs))
       IN  IF r.exc
           THEN [items |-> its, tabs |-> tbs, _all |-> cache, out |-> <<>>, exc |-> TRUE]
           ELSE [items |-> r.items, tabs |-> tbs, _all |-> cache, out |-> r.out,
                 exc |-> FALSE]

(* variant: the merged view is dropped by every call *)
add_always_invalidate(cls, loc, its, tbs, cache) ==
  LET r == Source(cls, loc, its, tbs, cache)
  IN  IF r.exc THEN [items |-> r.items, tabs |-> r.tabs, _all |-> r._all, exc |-> TRUE]
      ELSE [items |-> r.items, tabs |-> r.tabs \o r.out,
            _all |-> [cached |-> FALSE, crons |-> <<>>], exc |-> FALSE]

(* variant: the merged view is not invalidated *)
add_keep_cache(cls, loc, its, tbs, cache) ==
  LET r == Source(cls, loc, its, tbs, cache)
  IN  IF r.exc THEN [items |-> r.items, tabs |-> r.tabs, _all |-> r._all, exc |-> TRUE]
      ELSE [items |-> r.items, tabs |-> r.tabs \o r.out, _all |-> r._all, exc |-> FALSE]

(* CronTabs.add: every handle of the source is appended and the cache dropped *)
add(cls, loc, its, tbs, cache) ==
  LET r == Source(cls, loc, its, tbs, cache)
  IN  IF r.exc THEN [items |-> r.items, tabs |-> r.tabs, _all |-> r._all, exc |-> TRUE]
      ELSE [items |-> r.items,
            tabs  |-> r.tabs \o r.out,
            _all  |-> IF r.out # <<>> THEN [cached |-> FALSE, crons |-> <<>>] ELSE r._all,
            exc   |-> FALSE]

(* ---------------- actions ---------------- *)
Init ==
  /\ fs \in FileSystems
  /\ items = <<>>
  /\ tabs = <<>>
  /\ _all = [cached |-> FALSE, crons |-> <<>>]
  /\ _self = FALSE
  /\ pc = 0
  /\ call = [op |-> "none", cls |-> "", loc |-> <<>>]
  /\ exc = FALSE
  /\ ret = <<>>
  /\ passes = 0
  /\ visited = <<>>
  /\ appended = 0
  /\ nadds = 0
  /\ nconstructs = 0
  /\ system_cron = <<>>
  /\ times = [n \in PrayerNames |-> HHMM("0", "0", "0", "0")]
  /\ nruns = 0

(* CronTabs(): __new__ returns the singleton, __init__ starts a pass when empty *)
New ==
  /\ pc = 0
  /\ nconstructs < MaxConstructs
  /\ nconstructs' = nconstructs + 1
  /\ _self' = TRUE
  /\ call' = [op |-> "new", cls |-> "", loc |-> <<>>]
  /\ exc' = FALSE
  /\ IF tabs = <<>>
     THEN /\ pc' = 1
          /\ passes' = passes + 1
          /\ visited' = <<>>
     ELSE UNCHANGED <<pc, passes, visited>>
  /\ UNCHANGED <<fs, items, tabs, _all, ret, appended, nadds>>
  /\ UNCHANGED azvars

(* one iteration of `for loc in KNOWN_LOCATIONS: self.add(..)`; an exception *)
(* leaves __init__                                                           *)
InitStep ==
  /\ pc > 0
  /\ \E l \in {KNOWN_LOCATIONS[pc]} :
     \E r \in {add(l.cls, l.loc, items, tabs, _all)} :
         /\ items' = r.items
         /\ tabs' = r.tabs
         /\ _all' = r._all
         /\ exc' = r.exc
         /\ appended' = Len(r.tabs) - Len(tabs)
         /\ call' = [op |-> "add", cls |-> l.cls, loc |-> l.loc]
         /\ visited' = Append(visited, pc)
         /\ pc' = IF r.exc \/ pc = Len(KNOWN_LOCATIONS) THEN 0 ELSE pc + 1
  /\ UNCHANGED <<fs, _self, ret, passes, nadds, nconstructs>>
  /\ UNCHANGED azvars

(* a call of add by the user of the singleton *)
Add ==
  /\ pc = 0
  /\ _self
  /\ nadds < MaxAdds
  /\ \E i \in DOMAIN KNOWN_LOCATIONS :
       \E l \in {KNOWN_LOCATIONS[i]} :
       \E r \in {add(l.cls, l.loc, items, tabs, _all)} :
           /\ items' = r.items
           /\ tabs' = r.tabs
           /\ _all' = r._all
           /\ exc' = r.exc
           /\ appended' = Len(r.tabs) - Len(tabs)
           /\ call' = [op |-> "add", cls |-> l.cls, loc |-> l.loc]
  /\ nadds' = nadds + 1
  /\ UNCHANGED <<fs, _self, pc, ret, passes, visited, nconstructs>>
  /\ UNCHANGED azvars

(* a read of the property `all` *)
All ==
  /\ pc = 0
  /\ _self
  /\ \E r \in {all(items, tabs, _all)} :
         /\ items' = r.items
         /\ _all' = r._all
         /\ ret' = r._all.crons
  /\ call' = [op |-> "all", cls |-> "", loc |-> <<>>]
  /\ exc' = FALSE
  /\ UNCHANGED <<fs, tabs, _self, pc, passes, visited, appended, nadds, nconstructs>>
  /\ UNCHANGED azvars

Next == New \/ InitStep \/ Add \/ All

Spec == Init /\ [][Next]_vars

(* ---------------- updateAzaanTimers.py ---------------- *)
MaxRuns == 2
MaxJobs == 3

strPlayFajrAzaanMP3Command == "curl 'http://localhost/api/v1/assets/control/asset&1740a9e1daf24a2cb58f9e08a9546703'&& omxplayer -o local /home/pi/adhan/Adhan-fajr.mp3 > /dev/null 2>&1"
strPlayAzaanMP3Command == "curl 'http://localhost/api/v1/assets/control/asset&1740a9e1daf24a2cb58f9e08a9546703'&& omxplayer -o local /home/pi/adhan/Adhan-Makkah.mp3 > /dev/null 2>&1"
strUpdateCommand == "python /home/pi/adhan/updateAzaanTimers.py >> /home/pi/adhan/adhan.log 2>&1"
strClearLogsCommand == "truncate -s 0 /home/pi/adhan/adhan.log 2>&1"
strJobComment == "rpiAdhanClockJob"

(* the results of PT.getTimes the model draws from *)
PrayTimes ==
  { [fajr |-> f, dhuhr |-> HHMM("1", "1", "5", "9"), asr |-> HHMM("1", "5", "2", "0"),
     maghrib |-> HHMM("1", "8", "0", "5"), isha |-> i] :
      f \in {HHMM("0", "4", "3", "0"), HHMM("0", "5", "0", "7")},
      i \in {HHMM("1", "9", "0", "8"), HHMM("2", "0", "0", "0")} }

(* the five schedule fields minute, hour, day, month, weekday; <<>> is `*` *)
Stars == << <<>>, <<>>, <<>>, <<>>, <<>> >>

(* jobs the crontab of pi may hold before the first run *)
OldJobs ==
  { [command |-> "/home/pi/backup.sh", comment |-> "backup",
     slices |-> << <<30>>, <<2>>, <<>>, <<>>, <<>> >>],
    [command |-> strUpdateCommand, comment |-> strJobComment,
     slices |-> << <<15>>, <<3>>, <<>>, <<>>, <<>> >>],
    [command |-> strPlayAzaanMP3Command, comment |-> "fajr",
     slices |-> << <<12>>, <<4>>, <<>>, <<>>, <<>> >>],
    [command |-> "/home/pi/sync.sh", comment |-> "", slices |-> Stars] }

(* str.split(sep) *)
RECURSIVE split(_, _)
split(s, sep) ==
  IF \E i \in DOMAIN s : s[i] = sep
  THEN <<SubSeq(s, 1, (CHOOSE i \in DOMAIN s : s[i] = sep /\ \A k \in 1..(i - 1) : s[k] # sep) - 1)>>
       \o split(SubSeq(s, (CHOOSE i \in DOMAIN s : s[i] = sep /\ \A k \in 1..(i - 1) : s[k] # sep) + 1, Len(s)), sep)
  ELSE <<s>>

Digits == <<"0", "1", "2", "3", "4", "5", "6", "7", "8", "9">>

(* int(s) of a string of decimal digits *)
RECURSIVE int(_)
int(s) ==
  IF Len(s) = 0 THEN 0
  ELSE 10 * int(SubSeq(s, 1, Len(s) - 1))
       + (CHOOSE d \in 0..9 : Digits[d + 1] = s[Len(s)])

(* the job CronTab.new(command=.., comment=..) creates: every field `*` *)
new(command, comment) == [command |-> command, comment |-> comment, slices |-> Stars]
(* job.minute.on(v), job.hour.on(v), job.day.on(v) *)
minute_on(job, v) == [job EXCEPT !.slices[1] = <<v>>]
hour_on(job, v) == [job EXCEPT !.slices[2] = <<v>>]
day_on(job, v) == [job EXCEPT !.slices[3] = <<v>>]
set_comment(job, comment) == [job EXCEPT !.comment = comment]
(* CronTab.remove_all(comment=..): every job with that comment is removed *)
remove_all(tab, comment) == SelectSeq(tab, LAMBDA job : job.comment # comment)

(* variant: the job keeps the prayer name as its comment *)
addAzaanTime_keepname(strPrayerName, strPrayerTime, objCronTab, strCommand) ==
  Append(objCronTab,
         hour_on(minute_on(new(strCommand, strPrayerName),
                           int(split(strPrayerTime, ":")[2])),
                 int(split(strPrayerTime, ":")[1])))

addAzaanTime(strPrayerName, strPrayerTime, objCronTab, strCommand) ==
  Append(objCronTab,
         set_comment(hour_on(minute_on(new(strCommand, strPrayerName),
                                       int(split(strPrayerTime, ":")[2])),
                             int(split(strPrayerTime, ":")[1])),
                     strJobComment))

addUpdateCronJob(objCronTab, strCommand) ==
  Append(objCronTab,
         set_comment(hour_on(minute_on(new(strCommand, ""), 15), 3), strJobComment))

addClearLogsCronJob(objCronTab, strCommand) ==
  Append(objCronTab,
         set_comment(hour_on(minute_on(day_on(new(strCommand, ""), 1), 0), 0),
                     strJobComment))

(* the script from remove_all to the last add, on the jobs read from pi's crontab *)
Script(tab, t) ==
  addClearLogsCronJob(
    addUpdateCronJob(
      addAzaanTime("isha", t.isha,
        addAzaanTime("maghrib", t.maghrib,
          addAzaanTime("asr", t.asr,
            addAzaanTime("dhuhr", t.dhuhr,
              addAzaanTime("fajr", t.fajr, remove_all(tab, strJobComment),
                           strPlayFajrAzaanMP3Command),
              strPlayAzaanMP3Command),
            strPlayAzaanMP3Command),
          strPlayAzaanMP3Command),
        strPlayAzaanMP3Command),
      strUpdateCommand),
    strClearLogsCommand)

(* the crontab of pi before the first run *)
OldTabs == UNION { [1..n -> OldJobs] : n \in 0..MaxJobs }

InitAzaan ==
  /\ system_cron \in OldTabs
  /\ times = [n \in PrayerNames |-> HHMM("0", "0", "0", "0")]
  /\ nruns = 0
  /\ fs = FileSystem(TRUE, <<>>, None, 0, 0, FALSE, "absent", "absent", FALSE)
  /\ items = <<>>
  /\ tabs = <<>>
  /\ _all = [cached |-> FALSE, crons |-> <<>>]
  /\ _self = FALSE
  /\ pc = 0
  /\ call = [op |-> "none", cls |-> "", loc |-> <<>>]
  /\ exc = FALSE
  /\ ret = <<>>
  /\ passes = 0
  /\ visited = <<>>
  /\ appended = 0
  /\ nadds = 0
  /\ nconstructs = 0

(* one run of the script: read pi's crontab, rewrite it, write it back *)
Run ==
  /\ nruns < MaxRuns
  /\ \E t \in PrayTimes :
       /\ times' = t
       /\ system_cron' = Script(system_cron, t)
  /\ nruns' = nruns + 1
  /\ UNCHANGED <<fs, items, tabs, _all, _self, pc, call, exc, ret, passes, visited,
                 appended, nadds, nconstructs>>

SpecAzaan == InitAzaan /\ [][Run]_vars

(* ======================= properties ======================= *)
(* the last step was a call of add(cls, ..) *)
Added(cls) == call.op = "add" /\ call.cls = cls

(* jobs of the combined job set whose command references loc, in order *)
Matches(loc) == SelectSeq(Merged(tabs, 1), LAMBDA j : Contains(items[j].command, loc))

(* the handles the last add appended *)
Appended == {k \in DOMAIN tabs : k > Len(tabs) - appended}

(* C1: two consecutive reads of `all` return the same jobs with the same      *)
(* attributes, and a read that follows an add returns the jobs of every owned *)
(* handle, the appended ones included.                                        *)
C1_AllIdempotent ==
  [][call'.op = "all" =>
       /\ call.op = "all" =>
            /\ ret' = ret
            /\ \A i \in DOMAIN ret : items'[ret'[i]] = items[ret[i]]
       /\ call.op = "add" =>
            \A k \in DOMAIN tabs : \A i \in DOMAIN tabs[k].crons :
               InSeq(tabs[k].crons[i], ret')]_vars

C1_Witness ==
  /\ call.op = "all"
  /\ nadds > 0
  /\ appended > 0
  /\ \E k \in Appended : tabs[k].crons # <<>> /\ InSeq(tabs[k].crons[1], ret)

(* C2: however many times the constructor runs, the discovery pass over the *)
(* registry has run exactly once.                                          *)
C2_OnePass == nconstructs > 0 => passes = 1

(* C3: a UserSpool whose directory listing fails or is empty returns exactly *)
(* one handle, the invoking user's tab, and does not raise.                 *)
C3_FallbackHandle ==
  (Added("UserSpool") /\ listdir(call.loc) = <<>>) =>
     /\ ~exc
     /\ appended = 1
     /\ tabs[Len(tabs)].user = True

(* C4: when a job of the combined job set references the directory, the add *)
(* removes the first match from its handle and nothing else from any        *)
(* handle, and the next read of the merged view does not contain it.        *)
C4_TemplateRemoved ==
  [][(call'.op = "add" /\ call'.cls = "AnaCronTab" /\ ~exc'
      /\ Len(tabs) > 0 /\ call'.loc \in fs.isdir /\ Matches(call'.loc) # <<>>) =>
       LET t == Matches(call'.loc)[1]
       IN  /\ \A k \in DOMAIN tabs : tabs'[k].crons = Remove(tabs[k].crons, t)
           /\ \E k \in DOMAIN tabs : Len(tabs'[k].crons) = Len(tabs[k].crons) - 1
           /\ ~InSeq(t, all(items', tabs', _all')._all.crons)]_vars

C4_Witness ==
  /\ Added("AnaCronTab") /\ ~exc /\ appended = 1
  /\ tabs[Len(tabs)].crons # <<>>
  /\ \E j \in DOMAIN items :
       /\ Contains(items[j].command, call.loc)
       /\ ~InSeq(j, Merged(tabs, 1))
  /\ Matches(call.loc) # <<>>

(* seg is the part of loc after its last '.', the whole of loc if it has none *)
IsLastDotSegment(seg, loc) ==
  /\ \A i \in DOMAIN seg : seg[i] # "."
  /\ Len(seg) <= Len(loc)
  /\ SubSeq(loc, Len(loc) - Len(seg) + 1, Len(loc)) = seg
  /\ Len(seg) < Len(loc) => loc[Len(loc) - Len(seg)] = "."

Eligible(loc, e) == e # s0anacron /\ e[1] # "." /\ join(loc, e) \in fs.xok

(* C5: with a template found, the seeded handle holds one job per directory   *)
(* entry that is not 0anacron, not dot-prefixed and executable, none for any  *)
(* other entry; each has the entry's full path as command, the template's     *)
(* user and schedule, and the comment "Anacron " + last dot segment of loc.   *)
C5_AbsorbedJobs ==
  [][(call'.op = "add" /\ call'.cls = "AnaCronTab" /\ ~exc'
      /\ Len(tabs) > 0 /\ call'.loc \in fs.isdir /\ Matches(call'.loc) # <<>>) =>
       LET loc == call'.loc
           t == Matches(loc)[1]
           names == fs.listdir[loc].names
           seeded == tabs'[Len(tabs')].crons
       IN  /\ Len(tabs') = Len(tabs) + 1
           /\ \A n \in DOMAIN names :
                Cardinality({i \in DOMAIN seeded :
                               items'[seeded[i]].command = join(loc, names[n])})
                  = IF Eligible(loc, names[n]) THEN 1 ELSE 0
           /\ \A i \in DOMAIN seeded :
                LET job == items'[seeded[i]]
                IN  /\ \E n \in DOMAIN names : job.command = join(loc, names[n])
                    /\ job.user = items'[t].user
                    /\ job.slices = items'[t].slices
                    /\ Len(job.comment) > Len(Anacron_)
                    /\ SubSeq(job.comment, 1, Len(Anacron_)) = Anacron_
                    /\ IsLastDotSegment(
                         SubSeq(job.comment, Len(Anacron_) + 1, Len(job.comment)), loc)]_vars

C5_Witness ==
  /\ Added("AnaCronTab") /\ ~exc /\ appended = 1 /\ call.loc = DAILY
  /\ Len(tabs[Len(tabs)].crons) = 1
  /\ items[tabs[Len(tabs)].crons[1]].command = join(DAILY, run_sh)
  /\ items[tabs[Len(tabs)].crons[1]].comment = Anacron_ \o <<"d","a","i","l","y">>
  /\ items[tabs[Len(tabs)].crons[1]].slices = "25 6 * * *"

(* C6 as stated: with the directory present, at least one tab owned and no   *)
(* job referencing the directory, the add appends one empty handle and       *)
(* leaves every job (every attribute) and every handle's job list unchanged. *)
C6_NoJobTouched ==
  [][(call'.op = "add" /\ call'.cls = "AnaCronTab"
      /\ Len(tabs) > 0 /\ call'.loc \in fs.isdir /\ Matches(call'.loc) = <<>>) =>
       /\ ~exc'
       /\ Len(tabs') = Len(tabs) + 1
       /\ tabs'[Len(tabs')].crons = <<>>
       /\ SubSeq(tabs', 1, Len(tabs)) = tabs
       /\ items' = items]_vars

(* C6 amended: as above, but a job whose user was unset may get its          *)
(* effective user (the owning tab's user, else "unknown") from the read of   *)
(* the merged view the search makes; nothing else of any job changes.        *)
C6_OnlyUserDefaulted ==
  [][(call'.op = "add" /\ call'.cls = "AnaCronTab"
      /\ Len(tabs) > 0 /\ call'.loc \in fs.isdir /\ Matches(call'.loc) = <<>>) =>
       /\ ~exc'
       /\ Len(tabs') = Len(tabs) + 1
       /\ tabs'[Len(tabs')].crons = <<>>
       /\ SubSeq(tabs', 1, Len(tabs)) = tabs
       /\ Len(items') = Len(items)
       /\ \A j \in DOMAIN items :
            /\ items'[j] = [items[j] EXCEPT !.user = items'[j].user]
            /\ items'[j].user # items[j].user =>
                 /\ items[j].user = None
                 /\ LET u == CronTab_user(tabs[items[j].cron])
                    IN  items'[j].user = IF u = None \/ u = False THEN unknown ELSE u]_vars

C6_Witness ==
  /\ Added("AnaCronTab") /\ ~exc /\ appended = 1
  /\ Len(tabs) > 1
  /\ tabs[Len(tabs)].crons = <<>>
  /\ Matches(call.loc) = <<>>
  /\ \E j \in DOMAIN items : items[j].user = unknown

(* C7: every job a read of `all` returns has a user: for a job of a user's   *)
(* tab that tab's user, for a job of a tab without user identity "unknown".  *)
C7_EffectiveUser ==
  call.op = "all" =>
    \A i \in DOMAIN ret :
      LET job == items[ret[i]]
          tab == tabs[job.cron]
      IN  /\ job.user # None
          /\ tab.user = None => job.user = unknown
          /\ tab.user = True => job.user = CurrentUser
          /\ tab.user \notin {None, True, False} => job.user = tab.user

C7_Witness ==
  /\ call.op = "all"
  /\ \E i \in DOMAIN ret : items[ret[i]].user = unknown /\ tabs[items[ret[i]].cron].user = None
  /\ \E i \in DOMAIN ret : items[ret[i]].user = root

(* C8: a discovery pass that has ended has called add on every entry of the *)
(* registry, whatever one location did.                                    *)
C8_EveryLocationProcessed ==
  (pc = 0 /\ passes > 0) => visited = [i \in DOMAIN KNOWN_LOCATIONS |-> i]

(* C9: an add whose top-level directory cannot be listed does not raise. *)
C9_ListingErrorRecovered ==
  (call.op = "add" /\ call.loc \in DOMAIN fs.listdir /\ fs.listdir[call.loc].err) => ~exc

(* C10: every handle UserSpool returns for a spool entry is bound to the     *)
(* entry's name when the file's owner has that name, and is otherwise        *)
(* (other owner, or no account for the uid) bound to the file's path with no *)
(* user.                                                                     *)
C10_OwnershipClasses ==
  Added("UserSpool") =>
    LET names == listdir(call.loc)
        path(n) == join(call.loc, names[n])
        owned(n) == fs.owner[path(n)] = names[n]
    IN  /\ \A k \in Appended :
             \/ tabs[k].user = True /\ tabs[k].tabfile = None
             \/ \E n \in DOMAIN names :
                  /\ owned(n)
                  /\ tabs[k].user = names[n]
                  /\ tabs[k].tabfile = None
             \/ \E n \in DOMAIN names :
                  /\ ~owned(n)
                  /\ tabs[k].user = None
                  /\ tabs[k].tabfile = path(n)
        /\ \A n \in DOMAIN names : \A k \in Appended :
             /\ owned(n) => tabs[k].tabfile # path(n)
             /\ ~owned(n) => tabs[k].user # names[n]

C10_Witness ==
  /\ Added("UserSpool") /\ appended = 2
  /\ \E k \in Appended :
       /\ tabs[k].tabfile = join(SPOOL, al)
       /\ tabs[k].user = None
       /\ fs.owner[join(SPOOL, al)] = None
  /\ \E k \in Appended : tabs[k].user = pi /\ tabs[k].tabfile = None

(* C11: a SystemTab that returns yields, for a directory, one ownerless handle *)
(* per entry not starting with '.', in listing order, bound to the entry's     *)
(* full path; for a file one ownerless handle bound to it; for a path that is  *)
(* neither, no handle, and then it does not raise.                             *)
C11_SystemTabHandles ==
  Added("SystemTab") =>
    LET loc == call.loc
        first == Len(tabs) - appended
    IN  /\ (loc \notin fs.isdir /\ loc \notin fs.isfile) => (~exc /\ appended = 0)
        /\ (~exc /\ loc \in fs.isdir) =>
             LET shown == SelectSeq(fs.listdir[loc].names, LAMBDA n : n[1] # ".")
             IN  /\ appended = Len(shown)
                 /\ \A i \in DOMAIN shown :
                      /\ tabs[first + i].user = False
                      /\ tabs[first + i].tabfile = join(loc, shown[i])
        /\ (~exc /\ loc \notin fs.isdir /\ loc \in fs.isfile) =>
             /\ appended = 1
             /\ tabs[Len(tabs)].user = False
             /\ tabs[Len(tabs)].tabfile = loc

C11_Witness ==
  /\ Added("SystemTab") /\ ~exc /\ call.loc = CRON_D
  /\ fs.listdir[CRON_D].names = <<dot_hidden, job1>>
  /\ appended = 1
  /\ tabs[Len(tabs)].tabfile = join(CRON_D, job1)
  /\ tabs[Len(tabs)].user = False

(* C12: an AnaCronTab called while the list is empty or for a path that is   *)
(* no directory returns no handle, does not raise and changes neither the    *)
(* list, nor any job, nor the merged view.                                   *)
C12_AnaCronNoop ==
  [][(call'.op = "add" /\ call'.cls = "AnaCronTab"
      /\ (Len(tabs) = 0 \/ call'.loc \notin fs.isdir)) =>
       /\ ~exc'
       /\ appended' = 0
       /\ tabs' = tabs
       /\ items' = items
       /\ _all' = _all]_vars

C12_Witness ==
  /\ Added("AnaCronTab") /\ ~exc /\ appended = 0
  /\ call.loc \in fs.isdir
  /\ tabs = <<>>

(* the (handle, position) pairs of the jobs of the handles before handle k *)
JobsBefore(tbs, k) ==
  UNION {{<<h, i>> : i \in DOMAIN tbs[h].crons} : h \in 1..(k - 1)}

(* sq lists the jobs of tbs[1], then those of tbs[2], ..., each in its own order *)
IsConcat(sq, tbs) ==
  /\ Len(sq) = Cardinality(JobsBefore(tbs, Len(tbs) + 1))
  /\ \A k \in DOMAIN tbs : \A i \in DOMAIN tbs[k].crons :
       sq[Cardinality(JobsBefore(tbs, k)) + i] = tbs[k].crons[i]

(* C13: the registry has every AnaCronTab entry after the other entries,    *)
(* __init__ calls add on the entries in registry order, handles keep their  *)
(* place in the list and new ones go to the end, and a read of `all`        *)
(* returns the jobs of the handles in list order, each handle's in its own  *)
(* order.                                                                   *)
C13_DiscoveryOrder ==
  [][/\ \A i, j \in DOMAIN KNOWN_LOCATIONS :
          (i < j /\ KNOWN_LOCATIONS[i].cls = "AnaCronTab")
             => KNOWN_LOCATIONS[j].cls = "AnaCronTab"
     /\ visited' = [i \in 1..Len(visited') |-> i]
     /\ Len(tabs') >= Len(tabs)
     /\ \A k \in DOMAIN tabs :
          tabs'[k].user = tabs[k].user /\ tabs'[k].tabfile = tabs[k].tabfile
     /\ call'.op = "all" => IsConcat(ret', tabs')]_vars

C13_Witness ==
  /\ call.op = "all"
  /\ visited = [i \in DOMAIN KNOWN_LOCATIONS |-> i]
  /\ Len(ret) >= 3
  /\ \E g, k, h \in DOMAIN tabs :
       /\ g < k /\ k < h
       /\ tabs[g].crons # <<>>
       /\ Len(tabs[k].crons) = 2
       /\ tabs[h].crons # <<>>

(* C14 as stated: every add that returns appends the handles its source     *)
(* returns and leaves the merged view absent; with no handle returned the   *)
(* list is unchanged.                                                       *)
C14_CacheAbsentAfterAdd ==
  [][(call'.op = "add" /\ ~exc') =>
       LET r == Source(call'.cls, call'.loc, items, tabs, _all)
       IN  /\ tabs' = r.tabs \o r.out
           /\ ~_all'.cached
           /\ r.out = <<>> => tabs' = tabs]_vars

(* C14 amended: every add that returns appends the handles its source       *)
(* returns; the merged view is absent afterwards when at least one handle   *)
(* was appended, and is left as it was when none was; with no handle        *)
(* returned the list is unchanged.                                          *)
C14_CacheDroppedOnAppend ==
  [][(call'.op = "add" /\ ~exc') =>
       LET r == Source(call'.cls, call'.loc, items, tabs, _all)
       IN  /\ tabs' = r.tabs \o r.out
           /\ r.out # <<>> => ~_all'.cached
           /\ r.out = <<>> => (tabs' = tabs /\ _all' = _all)]_vars

C14_Witness ==
  /\ call.op = "add" /\ ~exc
  /\ appended = 0
  /\ _all.cached
  /\ _all.crons # <<>>

(* C15: a UserSpool whose listing has entries returns one handle per entry, *)
(* in listing order, whatever the entry's crontab holds, and no handle for  *)
(* the invoking user.                                                       *)
C15_HandlePerEntry ==
  (Added("UserSpool") /\ listdir(call.loc) # <<>>) =>
     LET names == listdir(call.loc)
         first == Len(tabs) - appended
     IN  /\ ~exc
         /\ appended = Len(names)
         /\ \A n \in DOMAIN names :
              /\ tabs[first + n].user # True
              /\ \/ tabs[first + n].user = names[n]
                 \/ tabs[first + n].tabfile = join(call.loc, names[n])

(* C16: whenever the merged view is present it lists exactly the current    *)
(* jobs of the owned handles, in order.                                     *)
C16_CacheCoherent == _all.cached => IsConcat(_all.crons, tabs)

C16_Witness ==
  /\ _all.cached
  /\ \E j \in DOMAIN items :
       /\ Contains(items[j].command, DAILY)
       /\ items[j].comment = <<>>
       /\ \A k \in DOMAIN tabs : ~InSeq(j, tabs[k].crons)
       /\ ~InSeq(j, _all.crons)
  /\ \E i \in DOMAIN _all.crons : items[_all.crons[i]].comment # <<>>

(* "HH:MM" of hour h and minute m, two decimal digits each *)
Clock(h, m) ==
  <<Digits[(h \div 10) + 1], Digits[(h % 10) + 1], ":",
    Digits[(m \div 10) + 1], Digits[(m % 10) + 1]>>

(* job fires at hour h, minute m, every day; cmd and the script's comment *)
PrayerJob(job, cmd, t) ==
  /\ job.command = cmd
  /\ job.comment = strJobComment
  /\ \E h \in 0..23, m \in 0..59 :
       /\ t = Clock(h, m)
       /\ job.slices = << <<m>>, <<h>>, <<>>, <<>>, <<>> >>

(* C17: after every run of the script, pi's crontab holds exactly seven     *)
(* jobs with the comment rpiAdhanClockJob: the five prayer jobs at the      *)
(* computed times, the update job at 03:15 and the log-clearing job at      *)
(* 00:00 on day 1; the jobs with another comment are the same jobs as       *)
(* before the run, in the same order, ahead of the seven.                   *)
C17_RunShape ==
  [][nruns' = nruns + 1 =>
       LET mine == SelectSeq(system_cron', LAMBDA job : job.comment = strJobComment)
           rest == SelectSeq(system_cron, LAMBDA job : job.comment # strJobComment)
       IN  /\ Len(mine) = 7
           /\ PrayerJob(mine[1], strPlayFajrAzaanMP3Command, times'.fajr)
           /\ PrayerJob(mine[2], strPlayAzaanMP3Command, times'.dhuhr)
           /\ PrayerJob(mine[3], strPlayAzaanMP3Command, times'.asr)
           /\ PrayerJob(mine[4], strPlayAzaanMP3Command, times'.maghrib)
           /\ PrayerJob(mine[5], strPlayAzaanMP3Command, times'.isha)
           /\ mine[6] = [command |-> strUpdateCommand, comment |-> strJobComment,
                         slices |-> << <<15>>, <<3>>, <<>>, <<>>, <<>> >>]
           /\ mine[7] = [command |-> strClearLogsCommand, comment |-> strJobComment,
                         slices |-> << <<0>>, <<0>>, <<1>>, <<>>, <<>> >>]
           /\ system_cron' = rest \o mine]_vars

C17_Witness ==
  /\ nruns = 2
  /\ Len(system_cron) = 9
  /\ system_cron[1].comment = "fajr"
  /\ system_cron[2].comment = "backup"
  /\ times.fajr = HHMM("0", "5", "0", "7")
  /\ system_cron[3].slices = << <<7>>, <<5>>, <<>>, <<>>, <<>> >>

====
